---- MODULE Spec2Model ----
(***************************************************************************)
(* A model of geojson.py: the GeoJSON container (features, aliases), the   *)
(* feature hierarchy with its dispatcher convert_feature, and the option   *)
(* utilities soft_update / compact_options.                                *)
(*                                                                         *)
(* Python values are modelled as follows.                                  *)
(*   - an instance of a class is a record with a field cls (the class      *)
(*     name) and one field per attribute;                                  *)
(*   - a value of a builtin class, where the code asks for its class, its  *)
(*     truth value or "is None", is a record too: None, Num(i), Str(s),    *)
(*     Bool(b), List(l), Dict(d) with d a function on the keys present;    *)
(*   - a raw JSON object of the feature envelope (a dict read by fixed key *)
(*     names only) is a bare function whose DOMAIN is the set of its keys; *)
(*   - a call returns [exc |-> "none", value |-> v] or, when it raises,    *)
(*     [exc |-> <exception class>, value |-> None].                        *)
(***************************************************************************)
EXTENDS Integers, Sequences, FiniteSets, TLC

VARIABLES
    features,   \* GeoJSON.features: the ordered list of Feature objects
    aliases,    \* GeoJSON.aliases: a dict in insertion order, <<[alias, id], ...>>
    nextId,     \* the next identifier uuid.uuid4().hex hands out (fresh every time)
    result,     \* the outcome of the last call: [op, arg, exc, value]
    cur,        \* feature hierarchy: the feature object under construction / use
    json,       \* feature hierarchy: the last to_json() of cur
    opts        \* option utilities: the mappings / keyword arguments at hand

vars == <<features, aliases, nextId, result, cur, json, opts>>

----------------------------------------------------------------------------
(* Bounds of the model *)

NumFeatures == 2    \* Feature objects the caller has created for the container
MaxFeatures == 2    \* longest feature list explored
MaxLoaded == 2      \* features created by load_json_object over a run
MaxCoord == 1       \* coordinates range over 0..MaxCoord
MaxChildren == 2    \* longest child list handed to a create()
MaxKwargs == 2      \* most keyword arguments given to a constructor of the Layer chain

----------------------------------------------------------------------------
(* Python basics *)

None == [cls |-> "NoneType"]

EmptyDict == [k \in {} |-> 0]

Ok(v) == [exc |-> "none", value |-> v]

Raise(e) == [exc |-> e, value |-> None]

\* del on a position of a list (list.remove, del dict[key])
RemoveAt(s, i) == SubSeq(s, 1, i - 1) \o SubSeq(s, i + 1, Len(s))

\* The builtin function object `id`, which at_id compares feature ids with:
\* a value that is no identifier string (identifiers are 1, 2, ... here).
BuiltinId == 0

\* FeatureType: a plain class holding seven string constants.
POINT == "Point"
MULTI_POINT == "MultiPoint"
LINE_STRING == "LineString"
MULTI_LINE_STRING == "MultiLineString"
POLYGON == "Polygon"
MULTI_POLYGON == "MultiPolygon"
GEOMETRY_COLLECTION == "GeometryCollection"

FeatureTypeTags ==
    {POINT, MULTI_POINT, LINE_STRING, MULTI_LINE_STRING, POLYGON, MULTI_POLYGON,
     GEOMETRY_COLLECTION}

\* The classes of the Feature hierarchy (every subclass of Feature, and Feature).
FeatureClasses ==
    {"Feature", "MultiFeature", "Point", "MultiPoint", "LineString",
     "MultiLineString", "Polygon", "MultiPolygon", "GeometryCollection"}

\* Values of the builtin classes.
Str(s) == [cls |-> "str", s |-> s]

Num(i) == [cls |-> "int", i |-> i]

Bool(b) == [cls |-> "bool", b |-> b]

List(l) == [cls |-> "list", l |-> l]

Dict(d) == [cls |-> "dict", d |-> d]

\* bool(value): None, 0, False and the empty str, list and dict are false; an
\* object of a class of this module (no __bool__, no __len__) is true.
Truthy(v) ==
    IF v.cls = "NoneType" THEN FALSE
    ELSE IF v.cls = "int" THEN v.i # 0
    ELSE IF v.cls = "bool" THEN v.b
    ELSE IF v.cls = "str" THEN v.s # ""
    ELSE IF v.cls = "list" THEN Len(v.l) > 0
    ELSE IF v.cls = "dict" THEN DOMAIN v.d # {}
    ELSE TRUE

\* isinstance(obj, classinfo) for classinfo a class of this module, given by the
\* set of the class and its subclasses. A raw JSON dict (no cls) is an instance
\* of none of them.
IsInstance(obj, classes) == "cls" \in DOMAIN obj /\ obj.cls \in classes

\* isinstance(obj, classinfo) in general: classinfo must be a class; a str (such
\* as a FeatureType tag) makes isinstance itself raise TypeError.
isinstance(obj, classinfo) ==
    IF classinfo.cls = "type" THEN Ok(obj.cls \in classinfo.classes)
    ELSE Raise("TypeError")

----------------------------------------------------------------------------
(* Option utilities *)

\* dict.get(key): the value, or None for a key that is absent
Get(obj, key) == IF key \in DOMAIN obj.d THEN obj.d[key] ELSE None

\* soft_update as dict.update would do it: obj_b's value for every key of obj_b.
soft_update_shallow(obj_a, obj_b) ==
    Dict([key \in DOMAIN obj_a.d \cup DOMAIN obj_b.d |->
             IF key \in DOMAIN obj_b.d THEN obj_b.d[key] ELSE obj_a.d[key]])

\* soft_update(obj_a, obj_b)
RECURSIVE soft_update(_, _)
soft_update(obj_a, obj_b) ==
    Dict([key \in DOMAIN obj_a.d \cup DOMAIN obj_b.d |->
             LET val_a == Get(obj_a, key)
                 val_b == Get(obj_b, key)
             IN  IF IsInstance(val_a, {"dict"}) /\ IsInstance(val_b, {"dict"})
                 THEN soft_update(val_a, val_b)
                 ELSE IF key \in DOMAIN obj_b.d THEN val_b
                 ELSE val_a])

\* soft_updates(*args): the left-to-right fold of soft_update from {}
RECURSIVE soft_updates_from(_, _, _)
soft_updates_from(obj, args, i) ==
    IF i > Len(args) THEN obj
    ELSE soft_updates_from(soft_update(obj, args[i]), args, i + 1)

soft_updates(args) == soft_updates_from(Dict(EmptyDict), args, 1)

\* _clean(value)
RECURSIVE _clean(_)
_clean(value) ==
    IF IsInstance(value, {"dict"})
    THEN Dict([k \in {k \in DOMAIN value.d : value.d[k] # None} |-> _clean(value.d[k])])
    ELSE value

\* compact_options dropping every falsy value instead of None alone.
compact_options_falsy(kwargs) ==
    Dict([key \in {k \in DOMAIN kwargs.d : Truthy(kwargs.d[k])} |-> _clean(kwargs.d[key])])

\* compact_options(**kwargs)
compact_options(kwargs) ==
    Dict([key \in {k \in DOMAIN kwargs.d : kwargs.d[k] # None} |-> _clean(kwargs.d[key])])

\* add_not_empty without its test: the key is set whatever the value.
add_not_empty_always(base, key, value) == Dict((key :> value) @@ base.d)

\* add_not_empty(base, key, value)
add_not_empty(base, key, value) ==
    IF Truthy(value) THEN Dict((key :> value) @@ base.d) ELSE base

----------------------------------------------------------------------------
(* Decorations: to_json of the Layer chain, Icon and Marker *)

\* The offset keyword of DivOverlay, Tooltip and Popup:
\* {"x": offset[0], "y": offset[1]} if self.offset else None
OffsetXY(self) ==
    IF Truthy(self.offset) THEN Dict([x |-> self.offset.l[1], y |-> self.offset.l[2]])
    ELSE None

\* Layer.to_json
Layer_to_json(self) ==
    add_not_empty(Dict(EmptyDict), "options",
        compact_options(Dict([pane |-> self.pane, attribution |-> self.attribution])))

\* InteractiveLayer.to_json
InteractiveLayer_to_json(self) ==
    soft_update(
        Layer_to_json(self),
        add_not_empty(Dict(EmptyDict), "options",
            compact_options(Dict([interactive |-> self.interactive,
                                  bubbling_mouse_events |-> self.bubbling_mouse_events]))))

\* DivOverlay.to_json
DivOverlay_to_json(self) ==
    soft_update(
        InteractiveLayer_to_json(self),
        add_not_empty(Dict([content |-> self.content]), "options",
            compact_options(Dict([interactive |-> self.interactive,
                                  offset |-> OffsetXY(self),
                                  className |-> self.class_name,
                                  pane |-> self.pane]))))

\* Icon.to_json
Icon_to_json(self) ==
    Dict([path |-> self.path,
          size |-> Dict([width |-> self.size.l[1], height |-> self.size.l[2]]),
          color |-> self.color])

\* Tooltip.to_json
Tooltip_to_json(self) ==
    soft_update(
        DivOverlay_to_json(self),
        add_not_empty(Dict(EmptyDict), "options",
            compact_options(Dict([offset |-> OffsetXY(self),
                                  direction |-> self.direction,
                                  permanent |-> self.permanent,
                                  sticky |-> self.sticky,
                                  opacity |-> self.opacity]))))

\* Popup.to_json
Popup_to_json(self) ==
    soft_update(
        DivOverlay_to_json(self),
        add_not_empty(Dict(EmptyDict), "options",
            compact_options(Dict([pane |-> self.pane,
                                  offset |-> OffsetXY(self),
                                  maxWidth |-> self.maxWidth,
                                  minWidth |-> self.minWidth,
                                  maxHeight |-> self.maxHeight,
                                  autoPan |-> self.autoPan,
                                  autoPanPaddingTopLeft |-> self.autoPanPaddingTopLeft,
                                  autoPanPaddingBottomRight |-> self.autoPanPaddingBottomRight,
                                  autoPanPadding |-> self.autoPanPadding,
                                  keepInView |-> self.keepInView,
                                  closeButton |-> self.closeButton,
                                  autoClose |-> self.autoClose,
                                  closeOnEscapeKey |-> self.closeOnEscapeKey,
                                  closeOnClick |-> self.closeOnClick,
                                  className |-> self.className]))))

\* Marker.to_json
Marker_to_json(self) ==
    soft_updates(
        << IF Truthy(self.icon)
           THEN add_not_empty(Dict(EmptyDict), "icon", Icon_to_json(self.icon))
           ELSE Dict(EmptyDict),
           IF Truthy(self.tooltip)
           THEN add_not_empty(Dict(EmptyDict), "tooltip", Tooltip_to_json(self.tooltip))
           ELSE Dict(EmptyDict),
           IF Truthy(self.popup)
           THEN add_not_empty(Dict(EmptyDict), "popup", Popup_to_json(self.popup))
           ELSE Dict(EmptyDict) >>)

\* The dataclass fields, class by class (a subclass has its ancestors' fields;
\* a field declared again, as pane or offset, is one attribute).
LayerFields == {"pane", "attribution"}

InteractiveLayerFields == LayerFields \cup {"interactive", "bubbling_mouse_events"}

DivOverlayFields == InteractiveLayerFields \cup {"offset", "class_name", "content"}

TooltipFields ==
    DivOverlayFields \cup {"text", "direction", "permanent", "sticky", "opacity"}

PopupFields ==
    DivOverlayFields
        \cup {"text", "maxWidth", "minWidth", "maxHeight", "autoPan",
              "autoPanPaddingTopLeft", "autoPanPaddingBottomRight", "autoPanPadding",
              "keepInView", "closeButton", "autoClose", "closeOnEscapeKey",
              "closeOnClick", "className"}

FieldsOf(cls) ==
    IF cls = "Layer" THEN LayerFields
    ELSE IF cls = "InteractiveLayer" THEN InteractiveLayerFields
    ELSE IF cls = "DivOverlay" THEN DivOverlayFields
    ELSE IF cls = "Tooltip" THEN TooltipFields
    ELSE PopupFields

\* cls(**kwargs) for a class of the Layer chain: the generated __init__ sets
\* every field to its default (None; "" for text) or to the keyword argument,
\* then __post_init__ of Tooltip and Popup sets content = {"text": text}.
NewLayer(cls, kwargs) ==
    LET fields == kwargs @@ [f \in FieldsOf(cls) |-> IF f = "text" THEN Str("") ELSE None]
    IN  [cls |-> cls]
            @@ (IF cls \in {"Tooltip", "Popup"}
                THEN [content |-> Dict([text |-> fields.text])]
                ELSE EmptyDict)
            @@ fields

\* Icon(): the defaults
NewIcon == [cls |-> "Icon", path |-> Str(""), size |-> List(<<Num(100), Num(100)>>),
            color |-> Str("black")]

\* Marker(icon, tooltip, popup)
NewMarker(icon, tooltip, popup) ==
    [cls |-> "Marker", icon |-> icon, tooltip |-> tooltip, popup |-> popup]

\* self.to_json() for an object of the Layer chain, by the class of self
layer_to_json(self) ==
    IF self.cls = "Layer" THEN Layer_to_json(self)
    ELSE IF self.cls = "InteractiveLayer" THEN InteractiveLayer_to_json(self)
    ELSE IF self.cls = "DivOverlay" THEN DivOverlay_to_json(self)
    ELSE IF self.cls = "Tooltip" THEN Tooltip_to_json(self)
    ELSE Popup_to_json(self)

----------------------------------------------------------------------------
(* Feature hierarchy: construction from a raw JSON object *)

RequiredKeys == <<"type", "properties", "geometry">>

\* Feature.__init__ up to the load: the fields of a fresh object.
NewFeature(cls, f_type, id) ==
    [cls |-> cls, feature_type |-> f_type, id |-> id, properties |-> EmptyDict,
     marker |-> None, geometry |-> [type |-> f_type, coordinates |-> <<>>]]

\* Feature.load_json_object. The first raise evaluates str(obj.to_json()) on a
\* dict, so what reaches the caller is AttributeError, not the KeyError.
Feature_load_json_object(self, obj) ==
    IF "type" \notin DOMAIN obj \/ obj["type"] # "Feature"
    THEN Raise("AttributeError")
    ELSE IF \E i \in 1..Len(RequiredKeys) : RequiredKeys[i] \notin DOMAIN obj
    THEN Raise("FeatureException")
    ELSE Ok([self EXCEPT !.properties = obj["properties"],
                         !.geometry = obj["geometry"]])

\* Feature.__init__(obj, f_type)
Feature_init(cls, f_type, id, obj) ==
    IF obj # None THEN Feature_load_json_object(NewFeature(cls, f_type, id), obj)
    ELSE Ok(NewFeature(cls, f_type, id))

\* MultiFeature.__init__(_type, obj): the Feature fields, then _type and features.
MultiFeature_init(cls, _type, id, obj) ==
    LET base == Feature_init(cls, _type, id, obj)
    IN  IF base.exc # "none" THEN base
        ELSE Ok(base.value @@ [_type |-> Str(_type), features |-> <<>>])

\* Point.__init__(obj): after the load, create(*coordinates) is called for its
\* argument check only (it builds and drops another Point).
Point_init(id, obj) ==
    LET base == Feature_init("Point", POINT, id, obj)
    IN  IF base.exc # "none" \/ obj = None THEN base
        ELSE IF "coordinates" \notin DOMAIN obj["geometry"] THEN Raise("KeyError")
        ELSE IF Len(obj["geometry"]["coordinates"]) # 2 THEN Raise("TypeError")
        ELSE base

\* GeometryCollection.__init__(obj): geometries = [] first, then MultiFeature's.
GeometryCollection_init(id, obj) ==
    LET base == MultiFeature_init("GeometryCollection", GEOMETRY_COLLECTION, id, obj)
    IN  IF base.exc # "none" THEN base
        ELSE Ok(base.value @@ [geometries |-> <<>>])

\* convert_feature(feature): the dispatcher. MULTI_POLYGON builds a Polygon.
convert_feature(feature, id) ==
    IF feature = None THEN Ok(NewFeature("Feature", "", id))
    ELSE IF "geometry" \notin DOMAIN feature THEN Raise("KeyError")
    ELSE IF "type" \notin DOMAIN feature["geometry"] THEN Raise("KeyError")
    ELSE LET f_type == feature["geometry"]["type"]
         IN  IF f_type = POINT THEN Point_init(id, feature)
             ELSE IF f_type = MULTI_POINT
             THEN MultiFeature_init("MultiPoint", MULTI_POINT, id, feature)
             ELSE IF f_type = LINE_STRING
             THEN Feature_init("LineString", LINE_STRING, id, feature)
             ELSE IF f_type = MULTI_LINE_STRING
             THEN MultiFeature_init("MultiLineString", MULTI_LINE_STRING, id, feature)
             ELSE IF f_type = POLYGON
             THEN Feature_init("Polygon", POLYGON, id, feature)
             ELSE IF f_type = MULTI_POLYGON
             THEN Feature_init("Polygon", POLYGON, id, feature)
             ELSE IF f_type = GEOMETRY_COLLECTION
             THEN GeometryCollection_init(id, feature)
             ELSE Ok(NewFeature("Feature", "", id))

----------------------------------------------------------------------------
(* Feature hierarchy: create() *)

\* Point.create(x, y)
Point_create(id, x, y) ==
    [NewFeature("Point", POINT, id) EXCEPT !.geometry.coordinates = <<x, y>>]

\* The loop with the raise left out: a child that is no instance of childClass
\* ends the loop, and what was built so far is returned.
CreateFromChildren_partial(obj, children, childClass) ==
    LET bad == {i \in 1..Len(children) : ~IsInstance(children[i], {childClass})}
        n == IF bad = {} THEN Len(children)
             ELSE (CHOOSE i \in bad : \A m \in bad : i <= m) - 1
    IN  Ok([obj EXCEPT !.geometry.coordinates =
                [i \in 1..n |-> children[i].geometry.coordinates]])

\* The loop shared by MultiPoint.create, LineString.create, MultiLineString.create
\* and MultiPolygon.create: every child must be an instance of childClass, and
\* its coordinates are appended to the new object's.
CreateFromChildren(obj, children, childClass) ==
    IF \E i \in 1..Len(children) : ~IsInstance(children[i], {childClass})
    THEN Raise("FeatureException")
    ELSE Ok([obj EXCEPT !.geometry.coordinates =
                 [i \in 1..Len(children) |-> children[i].geometry.coordinates]])

\* MultiPoint.create(*points)
MultiPoint_create(id, points) ==
    CreateFromChildren(MultiFeature_init("MultiPoint", MULTI_POINT, id, None).value,
                       points, "Point")

\* LineString.create(*points)
LineString_create(id, points) ==
    CreateFromChildren(Feature_init("LineString", LINE_STRING, id, None).value,
                       points, "Point")

\* MultiLineString.create(*line_strings)
MultiLineString_create(id, line_strings) ==
    CreateFromChildren(
        MultiFeature_init("MultiLineString", MULTI_LINE_STRING, id, None).value,
        line_strings, "LineString")

\* Polygon.create(*points): one ring, coordinates = [[p1, p2, ...]]
Polygon_create(id, points) ==
    IF \E i \in 1..Len(points) : ~IsInstance(points[i], {"Point"})
    THEN Raise("FeatureException")
    ELSE Ok([Feature_init("Polygon", POLYGON, id, None).value
                EXCEPT !.geometry.coordinates =
                    << [i \in 1..Len(points) |-> points[i].geometry.coordinates] >>])

\* MultiPolygon.create(*polygons)
MultiPolygon_create(id, polygons) ==
    CreateFromChildren(MultiFeature_init("MultiPolygon", MULTI_POLYGON, id, None).value,
                       polygons, "Polygon")

\* V.create(*children) for the five variants that ask for a child class, with
\* the arguments as they are after the call: the loops read
\* child.geometry["coordinates"] and assign to the new object alone.
create(cls, id, children) ==
    LET r == IF cls = "MultiPoint" THEN MultiPoint_create(id, children)
             ELSE IF cls = "LineString" THEN LineString_create(id, children)
             ELSE IF cls = "Polygon" THEN Polygon_create(id, children)
             ELSE IF cls = "MultiLineString" THEN MultiLineString_create(id, children)
             ELSE MultiPolygon_create(id, children)
    IN  [exc |-> r.exc, value |-> r.value, children |-> children]

\* The loop of GeometryCollection.create: a Feature is kept as it is, anything
\* else goes through convert_feature (with a fresh identifier).
RECURSIVE GeometryCollectionLoop(_, _, _, _)
GeometryCollectionLoop(obj, feats, i, id) ==
    IF i > Len(feats) THEN Ok(obj)
    ELSE IF IsInstance(feats[i], FeatureClasses)
    THEN GeometryCollectionLoop(
             [obj EXCEPT !.geometries = Append(@, feats[i])], feats, i + 1, id)
    ELSE LET c == convert_feature(feats[i], id)
         IN  IF c.exc # "none" THEN c
             ELSE GeometryCollectionLoop(
                      [obj EXCEPT !.geometries = Append(@, c.value)], feats, i + 1, id + 1)

\* GeometryCollection.create(*features)
GeometryCollection_create(id, feats) ==
    GeometryCollectionLoop(GeometryCollection_init(id, None).value, feats, 1, id + 1)

----------------------------------------------------------------------------
(* Feature hierarchy: to_json, add, remove *)

\* Feature.to_json (inherited by every variant but GeometryCollection)
Feature_to_json(self) ==
    LET obj == [type |-> "Feature", id |-> self.id, properties |-> self.properties,
                geometry |-> self.geometry]
    IN  IF self.marker # None THEN obj @@ [marker |-> Marker_to_json(self.marker)]
        ELSE obj

\* GeometryCollection.to_json: each child as {type, coordinates}; a child whose
\* geometry has no "coordinates" key raises KeyError.
GeometryCollection_to_json(self) ==
    IF \E i \in 1..Len(self.geometries) :
           "coordinates" \notin DOMAIN self.geometries[i].geometry
    THEN Raise("KeyError")
    ELSE Ok([type |-> "Feature", id |-> self.id, properties |-> self.properties,
             geometry |->
                 [type |-> "GeometryCollection",
                  geometries |->
                      [i \in 1..Len(self.geometries) |->
                          [type |-> self.geometries[i].feature_type,
                           coordinates |-> self.geometries[i].geometry.coordinates]]]])

\* self.to_json(), by the class of self
to_json(self) ==
    IF self.cls = "GeometryCollection" THEN GeometryCollection_to_json(self)
    ELSE Ok(Feature_to_json(self))

\* MultiFeature.add(obj): the check is isinstance(obj, self._type), and
\* self._type is the variant's own tag, a str.
MultiFeature_add(self, obj) ==
    LET t == isinstance(obj, self._type)
    IN  IF t.exc # "none" THEN [exc |-> t.exc, self |-> self]
        ELSE IF ~t.value THEN [exc |-> "TypeError", self |-> self]
        ELSE [exc |-> "none", self |-> [self EXCEPT !.features = Append(@, obj)]]

\* MultiFeature.remove(obj)
MultiFeature_remove(self, obj) ==
    LET t == isinstance(obj, self._type)
    IN  IF t.exc # "none" THEN [exc |-> t.exc, self |-> self]
        ELSE IF ~t.value THEN [exc |-> "TypeError", self |-> self]
        ELSE IF ~\E i \in 1..Len(self.features) : self.features[i].id = obj.id
        THEN [exc |-> "ValueError", self |-> self]
        ELSE [exc |-> "none",
              self |-> [self EXCEPT !.features =
                           RemoveAt(@, CHOOSE i \in 1..Len(@) :
                                          /\ @[i].id = obj.id
                                          /\ \A m \in 1..(i - 1) : @[m].id # obj.id)]]

\* GeometryCollection.add(obj)
GeometryCollection_add(self, obj) ==
    IF ~IsInstance(obj, FeatureClasses) THEN [exc |-> "TypeError", self |-> self]
    ELSE [exc |-> "none", self |-> [self EXCEPT !.geometries = Append(@, obj)]]

\* GeometryCollection.remove(obj)
GeometryCollection_remove(self, obj) ==
    IF ~IsInstance(obj, FeatureClasses) THEN [exc |-> "TypeError", self |-> self]
    ELSE IF ~\E i \in 1..Len(self.geometries) : self.geometries[i].id = obj.id
    THEN [exc |-> "ValueError", self |-> self]
    ELSE [exc |-> "none",
          self |-> [self EXCEPT !.geometries =
                       RemoveAt(@, CHOOSE i \in 1..Len(@) :
                                      /\ @[i].id = obj.id
                                      /\ \A m \in 1..(i - 1) : @[m].id # obj.id)]]

----------------------------------------------------------------------------
(* GeoJSON container *)

\* dict operations on aliases, kept in insertion order as Python's dict is
DictHas(d, k) == \E i \in 1..Len(d) : d[i].alias = k

DictGet(d, k) == d[CHOOSE i \in 1..Len(d) : d[i].alias = k].id

\* d[k] = v: a key already present keeps its position
DictSet(d, k, v) ==
    IF DictHas(d, k)
    THEN [i \in 1..Len(d) |-> IF d[i].alias = k THEN [alias |-> k, id |-> v] ELSE d[i]]
    ELSE Append(d, [alias |-> k, id |-> v])

\* GeoJSON.add_feature(feature, alias=None)
add_feature(fs, al, feature, alias) ==
    [exc |-> "none",
     features |-> Append(fs, feature),
     aliases |-> IF alias # None THEN DictSet(al, alias.s, feature.id) ELSE al]

\* GeoJSON.remove_feature with the alias scan left out.
remove_feature_keep_aliases(fs, al, feature) ==
    IF ~IsInstance(feature, FeatureClasses)
    THEN [exc |-> "TypeError", features |-> fs, aliases |-> al]
    ELSE IF ~\E i \in 1..Len(fs) : fs[i].id = feature.id
    THEN [exc |-> "ValueError", features |-> fs, aliases |-> al]
    ELSE LET i == CHOOSE k \in 1..Len(fs) :
                      fs[k].id = feature.id /\ \A m \in 1..(k - 1) : fs[m].id # feature.id
         IN  [exc |-> "none", features |-> RemoveAt(fs, i), aliases |-> al]

\* GeoJSON.remove_feature with the alias scan deleting the last match.
remove_feature_last_alias(fs, al, feature) ==
    IF ~IsInstance(feature, FeatureClasses)
    THEN [exc |-> "TypeError", features |-> fs, aliases |-> al]
    ELSE IF ~\E i \in 1..Len(fs) : fs[i].id = feature.id
    THEN [exc |-> "ValueError", features |-> fs, aliases |-> al]
    ELSE LET i == CHOOSE k \in 1..Len(fs) :
                      fs[k].id = feature.id /\ \A m \in 1..(k - 1) : fs[m].id # feature.id
             hits == {j \in 1..Len(al) : al[j].id = feature.id}
         IN  [exc |-> "none",
              features |-> RemoveAt(fs, i),
              aliases |-> IF hits = {} THEN al
                          ELSE RemoveAt(al, CHOOSE j \in hits : \A m \in hits : m <= j)]

\* The alias scan of remove_feature: delete the first entry, in the dict's
\* order, bound to the removed feature's id, then break.
PruneAlias(al, id) ==
    LET hits == {j \in 1..Len(al) : al[j].id = id}
    IN  IF hits = {} THEN al
        ELSE RemoveAt(al, CHOOSE j \in hits : \A m \in hits : j <= m)

\* GeoJSON.remove_feature(feature). Feature defines no __eq__, so list.remove
\* finds the object itself; objects and ids correspond one to one.
remove_feature(fs, al, feature) ==
    IF ~IsInstance(feature, FeatureClasses)
    THEN [exc |-> "TypeError", features |-> fs, aliases |-> al]
    ELSE IF ~\E i \in 1..Len(fs) : fs[i].id = feature.id
    THEN [exc |-> "ValueError", features |-> fs, aliases |-> al]
    ELSE LET i == CHOOSE k \in 1..Len(fs) :
                      fs[k].id = feature.id /\ \A m \in 1..(k - 1) : fs[m].id # feature.id
         IN  [exc |-> "none",
              features |-> RemoveAt(fs, i),
              aliases |-> PruneAlias(al, feature.id)]

\* f.feature_type == _type for a str attribute and an argument of any class
FeatureTypeEq(feature_type, _type) == _type.cls = "str" /\ _type.s = feature_type

\* GeoJSON.count(_type)
count(fs, _type) ==
    IF ~IsInstance(_type, {"FeatureType"}) THEN Raise("TypeError")
    ELSE Ok(Len(SelectSeq(fs, LAMBDA f : FeatureTypeEq(f.feature_type, _type))))

\* GeoJSON.at_id(_id): the comprehension compares with the builtin `id`, not
\* with the parameter; a Feature object is truthy.
at_id(fs, _id) ==
    LET res == SelectSeq(fs, LAMBDA f : f.id = BuiltinId)
    IN  IF Len(res) = 0 THEN Raise("IndexError") ELSE Ok(res[1])

\* GeoJSON.at_alias(alias)
at_alias(fs, al, alias) ==
    IF ~DictHas(al, alias) THEN Raise("GeoJSONException")
    ELSE LET _id == DictGet(al, alias)
             res == SelectSeq(fs, LAMBDA f : f.id = _id)
         IN  IF Len(res) = 0 THEN Raise("IndexError") ELSE Ok(res[1])

\* The loop of GeoJSON.load_json_object: append each converted feature; the
\* first conversion that raises ends the call with what was appended so far.
\* Every conversion takes a fresh identifier.
RECURSIVE LoadLoop(_, _, _, _)
LoadLoop(fs, raws, i, id) ==
    IF i > Len(raws) THEN [exc |-> "none", features |-> fs, nextId |-> id]
    ELSE LET c == convert_feature(raws[i], id)
         IN  IF c.exc # "none" THEN [exc |-> c.exc, features |-> fs, nextId |-> id + 1]
             ELSE LoadLoop(Append(fs, c.value), raws, i + 1, id + 1)

\* GeoJSON.load_json_object(obj)
load_json_object(fs, obj, id) ==
    IF "type" \notin DOMAIN obj \/ obj["type"] # "FeatureCollection"
    THEN [exc |-> "GeoJSONException", features |-> fs, nextId |-> id]
    ELSE IF "features" \notin DOMAIN obj
    THEN [exc |-> "KeyError", features |-> fs, nextId |-> id]
    ELSE LoadLoop(fs, obj["features"], 1, id)

----------------------------------------------------------------------------
(* The container as a state machine *)

Aliases == {"home", "work"}

\* The Feature objects the caller holds, made with create(): identifiers
\* 1..NumFeatures, Points and MultiPolygons in turn.
PoolFeature(i) ==
    IF i % 2 = 1 THEN Point_create(i, i, 0)
    ELSE MultiPolygon_create(i, <<>>).value

Pool == {PoolFeature(i) : i \in 1..NumFeatures}

\* Raw features of a loaded envelope: a Point, a MultiPolygon, a LineString
\* with no "properties", and null.
RawFeatures ==
    << [type |-> "Feature", properties |-> EmptyDict,
        geometry |-> [type |-> POINT, coordinates |-> <<0, 1>>]],
       [type |-> "Feature", properties |-> EmptyDict,
        geometry |-> [type |-> MULTI_POLYGON, coordinates |-> <<>>]],
       [type |-> "Feature",
        geometry |-> [type |-> LINE_STRING, coordinates |-> <<>>]],
       None >>

\* The "features" arrays of the envelopes loaded: empty, valid ones, and ones
\* whose second or first entry fails conversion.
RawArrays ==
    << <<>>,
       <<RawFeatures[1]>>,
       <<RawFeatures[2], RawFeatures[4]>>,
       <<RawFeatures[1], RawFeatures[3]>>,
       <<RawFeatures[3], RawFeatures[1]>> >>

\* The envelope {type: t, features: raws}, either key left out on demand.
Envelope(t, hasFeatures, raws) ==
    (IF t = "absent" THEN EmptyDict ELSE [type |-> t])
    @@ (IF hasFeatures THEN [features |-> raws] ELSE EmptyDict)

NoCall == [op |-> "none", arg |-> None, exc |-> "none", value |-> None]

Init ==
    /\ features = <<>>
    /\ aliases = <<>>
    /\ nextId = NumFeatures + 1
    /\ result = NoCall
    /\ cur = None
    /\ json = None
    /\ opts = None

AddFeature ==
    \E f \in Pool, alias \in {None} \cup {Str(a) : a \in Aliases} :
        /\ Len(features) < MaxFeatures
        /\ LET r == add_feature(features, aliases, f, alias)
           IN  /\ features' = r.features
               /\ aliases' = r.aliases
               /\ result' = [op |-> "add_feature", arg |-> f, alias |-> alias,
                             exc |-> r.exc, value |-> None]
        /\ UNCHANGED <<nextId, cur, json, opts>>

RemoveFeature ==
    \E f \in Pool \cup {features[i] : i \in 1..Len(features)} \cup {Str("x")} :
        /\ LET r == remove_feature(features, aliases, f)
           IN  /\ features' = r.features
               /\ aliases' = r.aliases
               /\ result' = [op |-> "remove_feature", arg |-> f, exc |-> r.exc,
                             value |-> None, pruned |-> r.aliases # aliases]
        /\ UNCHANGED <<nextId, cur, json, opts>>

Count ==
    \E _type \in {Str(t) : t \in FeatureTypeTags \cup {"Circle"}}
                 \cup {[cls |-> "FeatureType"]} :
        /\ result' = [op |-> "count", arg |-> _type] @@ count(features, _type)
        /\ UNCHANGED <<features, aliases, nextId, cur, json, opts>>

AtId ==
    \E _id \in {features[i].id : i \in 1..Len(features)} \cup {NumFeatures + MaxLoaded + 1} :
        /\ result' = [op |-> "at_id", arg |-> _id] @@ at_id(features, _id)
        /\ UNCHANGED <<features, aliases, nextId, cur, json, opts>>

AtAlias ==
    \E alias \in Aliases :
        /\ result' = [op |-> "at_alias", arg |-> alias]
                         @@ at_alias(features, aliases, alias)
        /\ UNCHANGED <<features, aliases, nextId, cur, json, opts>>

LoadJsonObject ==
    \E t \in {"FeatureCollection", "Foo", "absent"}, hasFeatures \in BOOLEAN,
       k \in 1..Len(RawArrays) :
        /\ Len(features) + Len(RawArrays[k]) <= MaxFeatures
        /\ nextId + Len(RawArrays[k]) <= NumFeatures + MaxLoaded + 1
        /\ LET obj == Envelope(t, hasFeatures, RawArrays[k])
               r == load_json_object(features, obj, nextId)
           IN  /\ features' = r.features
               /\ nextId' = r.nextId
               /\ result' = [op |-> "load_json_object", arg |-> t,
                             exc |-> r.exc, value |-> None]
        /\ UNCHANGED <<aliases, cur, json, opts>>

Next ==
    \/ AddFeature
    \/ RemoveFeature
    \/ Count
    \/ AtId
    \/ AtAlias
    \/ LoadJsonObject

Spec == Init /\ [][Next]_vars

----------------------------------------------------------------------------
(* Claims about the container, checked under Spec *)

\* C1: in every reachable state of the container every alias value is the id
\* of a feature that is in the feature list (no alias dangles).
C1_NoAliasDangles ==
    \A j \in 1..Len(aliases) : \E i \in 1..Len(features) : features[i].id = aliases[j].id

\* C1 witness: a removal has pruned an alias and other aliases are still bound.
C1_Witness ==
    /\ result.op = "remove_feature"
    /\ result.exc = "none"
    /\ result.pruned
    /\ Len(aliases) >= 1

\* The aliases bound to id, in the dict's order.
AliasesOf(al, id) == SelectSeq(al, LAMBDA e : e.id = id)

\* After add_feature(f, a), at_alias(a) returns f.
AddThenLookup ==
    (result'.op = "add_feature" /\ result'.alias # None)
        => at_alias(features', aliases', result'.alias.s) = Ok(result'.arg)

C3_AtIdLooksUp ==
    result.op = "at_id" =>
        IF \E i \in 1..Len(features) : features[i].id = result.arg
        THEN result.exc = "none" /\ result.value.id = result.arg
        ELSE result.exc = "none" /\ result.value = None

\* C4 as stated: for each of the seven tags count(t) returns the number of
\* features whose feature_type is t, and TypeError is raised only for an
\* argument that is not one of the tags.
C4_CountByTag ==
    result.op = "count" =>
        IF result.arg.cls = "str" /\ result.arg.s \in FeatureTypeTags
        THEN /\ result.exc = "none"
             /\ result.value =
                    Cardinality({i \in 1..Len(features) :
                                     features[i].feature_type = result.arg.s})
        ELSE result.exc \in {"none", "TypeError"}

\* C10 as stated: a load_json_object call that raises leaves the feature list
\* and the alias map as they were before the call.
C10_LoadAllOrNothing ==
    [][ (result'.op = "load_json_object" /\ result'.exc # "none")
            => (features' = features /\ aliases' = aliases) ]_vars

----------------------------------------------------------------------------
(* The feature hierarchy as a state machine: one feature is created (or one   *)
(* raw feature converted), children are added and removed, it is serialised,  *)
(* and the serialisation is converted back and serialised again.              *)

Coordinates == (0..MaxCoord) \X (0..MaxCoord)

MultiClasses == {"MultiPoint", "MultiLineString", "MultiPolygon"}

\* The child class each create() asks for.
ChildClass(cls) ==
    IF cls \in {"MultiPoint", "LineString", "Polygon"} THEN "Point"
    ELSE IF cls = "MultiLineString" THEN "LineString"
    ELSE "Polygon"

\* A value that is no Feature, handed in where a child is expected.
NotAFeature == Str("not a point")

\* Points along the diagonal, the children of the lines and rings below.
DiagonalPoints(id, k) ==
    [j \in 1..k |-> Point_create(id, (j - 1) % (MaxCoord + 1), (j - 1) % (MaxCoord + 1))]

\* LineString.create / Polygon.create of k points, as children of the multis.
LineOf(id, k) == LineString_create(id, DiagonalPoints(id, k)).value

RingOf(id, k) == Polygon_create(id, DiagonalPoints(id, k)).value

\* What a caller hands to GeometryCollection.create: Feature objects, raw
\* features (one that converts, one that lacks "properties"), and None.
CollectionChild(id, k) ==
    IF k = 1 THEN Point_create(id, 0, MaxCoord)
    ELSE IF k = 2 THEN LineOf(id, 1)
    ELSE IF k = 3 THEN RawFeatures[1]
    ELSE IF k = 4 THEN RawFeatures[3]
    ELSE None

\* A raw feature put together key by key; "absent" leaves the key out.
RawFeature(envType, hasProperties, hasGeometry, tag, coords) ==
    (IF envType = "absent" THEN EmptyDict ELSE [type |-> envType])
    @@ (IF hasProperties THEN [properties |-> EmptyDict] ELSE EmptyDict)
    @@ (IF hasGeometry
        THEN [geometry |->
                 (IF tag = "absent" THEN EmptyDict ELSE [type |-> tag])
                 @@ (IF coords = "absent" THEN EmptyDict
                     ELSE IF coords = "empty" THEN [coordinates |-> <<>>]
                     ELSE [coordinates |-> <<0, MaxCoord>>])]
        ELSE EmptyDict)

InitFeature ==
    /\ features = <<>>
    /\ aliases = <<>>
    /\ nextId = 1
    /\ result = NoCall
    /\ cur = None
    /\ json = None
    /\ opts = None

\* The bookkeeping of a create() call: n children were made first.
Created(cls, n, r) ==
    /\ cur' = r.value
    /\ json' = None
    /\ nextId' = nextId + n + 1
    /\ result' = [op |-> "create", arg |-> cls, exc |-> r.exc, value |-> r.value]
    /\ UNCHANGED <<features, aliases, opts>>

CreatePoint ==
    /\ result.op = "none"
    /\ \E c \in Coordinates :
           Created("Point", 0, Ok(Point_create(nextId, c[1], c[2])))

\* The classes whose create() asks for a child class.
TypedParents == {"MultiPoint", "LineString", "Polygon", "MultiLineString", "MultiPolygon"}

\* What a caller may hand to cls.create in place of a child: a str, None, and a
\* Feature of another class.
WrongChildren(cls, id) ==
    {NotAFeature, None,
     IF ChildClass(cls) = "Point" THEN LineOf(id, 1) ELSE Point_create(id, 0, 0)}

\* The bookkeeping of a create() of TypedParents: n children were made first;
\* the arguments are kept as passed and as they are after the call, with the
\* feature that existed before it.
CreatedFrom(cls, n, children, r) ==
    /\ json' = None
    /\ nextId' = nextId + n + 1
    /\ result' = [op |-> "create", arg |-> cls, exc |-> r.exc, value |-> r.value,
                  children |-> children, after |-> r.children, prev |-> cur]
    /\ UNCHANGED <<features, aliases, opts>>

\* MultiPoint.create, LineString.create, Polygon.create with n children, all
\* Points or with the child at badAt no Point.
CreateFromPoints ==
    /\ result.op = "none"
    /\ \E cls \in {"MultiPoint", "LineString", "Polygon"}, n \in 0..MaxChildren :
           \E cs \in [1..n -> Coordinates], badAt \in 0..n :
               \E bad \in WrongChildren(cls, nextId + badAt - 1) :
                   LET points == [i \in 1..n |->
                                     IF i = badAt THEN bad
                                     ELSE Point_create(nextId + i - 1, cs[i][1], cs[i][2])]
                       r == create(cls, nextId + n, points)
                   IN  /\ (badAt = 0 => bad = NotAFeature)
                       /\ cur' = r.value
                       /\ CreatedFrom(cls, n, points, r)

\* MultiLineString.create and MultiPolygon.create with n children of ks[i]
\* points each, or with the child at badAt no LineString / no Polygon.
CreateFromLines ==
    /\ result.op = "none"
    /\ \E cls \in {"MultiLineString", "MultiPolygon"}, n \in 0..MaxChildren :
           \E ks \in [1..n -> 0..MaxChildren], badAt \in 0..n :
               \E bad \in WrongChildren(cls, nextId + badAt - 1) :
                   LET children == [i \in 1..n |->
                                       IF i = badAt THEN bad
                                       ELSE IF cls = "MultiLineString"
                                       THEN LineOf(nextId + i - 1, ks[i])
                                       ELSE RingOf(nextId + i - 1, ks[i])]
                       r == create(cls, nextId + n, children)
                   IN  /\ (badAt = 0 => bad = NotAFeature)
                       /\ cur' = r.value
                       /\ CreatedFrom(cls, n, children, r)

\* cls.create with the feature created before, cur, as the child at position
\* at, and n - 1 more children: all other (of the class asked for or not).
CreateFromCreated ==
    /\ result.op = "create"
    /\ result.exc = "none"
    /\ cur.cls \in {"Point", "LineString", "Polygon"}
    /\ result.value = cur
    /\ \E cls \in {c \in TypedParents : ChildClass(c) = cur.cls}, n \in 1..MaxChildren :
           \E at \in 1..n, other \in WrongChildren(cls, nextId) \cup {cur} :
               LET children == [i \in 1..n |-> IF i = at THEN cur ELSE other]
                   r == create(cls, nextId + 1, children)
               IN  /\ cur' = r.children[at]
                   /\ CreatedFrom(cls, 1, children, r)

CreateGeometryCollection ==
    /\ result.op = "none"
    /\ \E n \in 0..MaxChildren :
           \E pick \in [1..n -> 1..5] :
               LET feats == [i \in 1..n |-> CollectionChild(nextId + i - 1, pick[i])]
               IN  Created("GeometryCollection", 2 * n,
                           GeometryCollection_create(nextId + n, feats))

\* The markers a caller attaches: an empty one, one with the default icon, and
\* one with a tooltip and a popup that carry options.
Markers ==
    {NewMarker(None, None, None),
     NewMarker(NewIcon, None, None),
     NewMarker(None,
               NewLayer("Tooltip", [text |-> Str("t"), permanent |-> Bool(FALSE)]),
               NewLayer("Popup", [text |-> Str("p"), closeButton |-> Bool(FALSE),
                                  offset |-> List(<<Num(0), Num(1)>>)]))}

\* cur.marker = marker, on a feature that has none
AttachMarker ==
    /\ cur # None
    /\ json = None
    /\ cur.marker = None
    /\ \E marker \in Markers :
           /\ cur' = [cur EXCEPT !.marker = marker]
           /\ result' = [op |-> "marker", arg |-> marker, exc |-> "none", value |-> None]
    /\ UNCHANGED <<features, aliases, nextId, json, opts>>

\* The arguments tried with add and remove: one object of each child class and
\* a value that is no Feature.
AddArguments ==
    {Point_create(nextId, 0, 0), LineOf(nextId, 1), RingOf(nextId, 1), NotAFeature}

Add ==
    /\ cur # None
    /\ json = None
    /\ cur.cls \in MultiClasses \cup {"GeometryCollection"}
    /\ \E obj \in AddArguments :
           LET r == IF cur.cls = "GeometryCollection" THEN GeometryCollection_add(cur, obj)
                    ELSE MultiFeature_add(cur, obj)
           IN  /\ IF cur.cls = "GeometryCollection"
                  THEN Len(cur.geometries) < MaxChildren
                  ELSE Len(cur.features) < MaxChildren
               /\ cur' = r.self
               /\ result' = [op |-> "add", arg |-> obj, exc |-> r.exc, value |-> None]
    /\ UNCHANGED <<features, aliases, nextId, json, opts>>

Remove ==
    /\ cur # None
    /\ json = None
    /\ cur.cls \in MultiClasses \cup {"GeometryCollection"}
    /\ \E obj \in AddArguments
                  \cup (IF cur.cls = "GeometryCollection"
                        THEN {cur.geometries[i] : i \in 1..Len(cur.geometries)}
                        ELSE {cur.features[i] : i \in 1..Len(cur.features)}) :
           LET r == IF cur.cls = "GeometryCollection"
                    THEN GeometryCollection_remove(cur, obj)
                    ELSE MultiFeature_remove(cur, obj)
           IN  /\ cur' = r.self
               /\ result' = [op |-> "remove", arg |-> obj, exc |-> r.exc, value |-> None]
    /\ UNCHANGED <<features, aliases, nextId, json, opts>>

\* cur.to_json()
ToJson ==
    /\ cur # None
    /\ json = None
    /\ LET r == to_json(cur)
       IN  /\ r.exc = "none"
           /\ json' = r.value
           /\ result' = [op |-> "to_json", of |-> "cur", arg |-> None,
                         exc |-> r.exc, value |-> r.value]
    /\ UNCHANGED <<features, aliases, nextId, cur, opts>>

\* convert_feature(cur.to_json())
ConvertJson ==
    /\ json # None
    /\ result.op = "to_json"
    /\ result.of = "cur"
    /\ result' = [op |-> "convert_feature", of |-> "json", arg |-> json]
                     @@ convert_feature(json, nextId)
    /\ nextId' = nextId + 1
    /\ UNCHANGED <<features, aliases, cur, json, opts>>

\* convert_feature(raw) for a raw feature that comes from elsewhere
ConvertRaw ==
    /\ result.op = "none"
    /\ \E raw \in {None}
                  \cup {RawFeature(e, p, g, t, c) :
                           e \in {"Feature", "Foo", "absent"}, p \in BOOLEAN, g \in BOOLEAN,
                           t \in FeatureTypeTags \cup {"Circle", "absent"},
                           c \in {"absent", "empty", "pair"}} :
           result' = [op |-> "convert_feature", of |-> "raw", arg |-> raw]
                         @@ convert_feature(raw, nextId)
    /\ nextId' = nextId + 1
    /\ UNCHANGED <<features, aliases, cur, json, opts>>

\* convert_feature(...).to_json(): the converted feature serialised again
ToJsonConverted ==
    /\ result.op = "convert_feature"
    /\ result.exc = "none"
    /\ result' = [op |-> "to_json", of |-> result.of, arg |-> result.arg]
                     @@ to_json(result.value)
    /\ UNCHANGED <<features, aliases, nextId, cur, json, opts>>

NextFeature ==
    \/ CreatePoint
    \/ CreateFromPoints
    \/ CreateFromLines
    \/ CreateGeometryCollection
    \/ CreateFromCreated
    \/ AttachMarker
    \/ Add
    \/ Remove
    \/ ToJson
    \/ ConvertJson
    \/ ConvertRaw
    \/ ToJsonConverted

SpecFeature == InitFeature /\ [][NextFeature]_vars

----------------------------------------------------------------------------
(* Claims about the feature hierarchy, checked under SpecFeature *)

\* C5 as stated: for a raw feature whose geometry.type is one of the seven
\* tags, the feature convert_feature returns is of the variant with that tag,
\* so that its feature_type equals its geometry.type.
C5_ConvertMatchesTag ==
    (/\ result.op = "convert_feature"
     /\ result.exc = "none"
     /\ result.arg # None
     /\ result.arg.geometry.type \in FeatureTypeTags)
        => /\ result.value.cls = result.arg.geometry.type
           /\ result.value.feature_type = result.arg.geometry.type
           /\ result.value.feature_type = result.value.geometry.type

\* C6 as stated: for every variant and every valid child list,
\* convert_feature(V.create(children...).to_json()) succeeds and its to_json()
\* equals V.create(children...).to_json() in type, properties and geometry.
C6_RoundTrip ==
    /\ (result.op = "convert_feature" /\ result.of = "json") => result.exc = "none"
    /\ (result.op = "to_json" /\ result.of = "json")
           => /\ result.exc = "none"
              /\ result.value.type = json.type
              /\ result.value.properties = json.properties
              /\ result.value.geometry = json.geometry

\* C9 as stated: on a MultiPoint, MultiLineString or MultiPolygon, add(c) of a
\* c of the declared child type appends c, remove(c) of such a c deletes it
\* when present and raises ValueError when absent, and a c of any other type
\* raises TypeError and leaves the children as they were.
C9_AddRemoveTypeChecked ==
    [][ (result'.op \in {"add", "remove"} /\ cur.cls \in MultiClasses)
            => IF IsInstance(result'.arg, {ChildClass(cur.cls)})
               THEN IF result'.op = "add"
                    THEN /\ result'.exc = "none"
                         /\ cur'.features = Append(cur.features, result'.arg)
                    ELSE IF \E i \in 1..Len(cur.features) :
                                cur.features[i].id = result'.arg.id
                    THEN /\ result'.exc = "none"
                         /\ Len(cur'.features) = Len(cur.features) - 1
                    ELSE /\ result'.exc = "ValueError"
                         /\ cur'.features = cur.features
               ELSE /\ result'.exc = "TypeError"
                    /\ cur'.features = cur.features
      ]_vars

\* C11: MultiPoint.create, LineString.create and Polygon.create (child class
\* Point), MultiLineString.create (LineString) and MultiPolygon.create
\* (Polygon) raise FeatureException when some child is no instance of the
\* child class; no instance is returned then, and the children passed in and
\* the feature created before are what they were before the call.
C11_CreateTypeGuards ==
    (/\ result.op = "create"
     /\ result.arg \in TypedParents
     /\ \E i \in 1..Len(result.children) :
            ~IsInstance(result.children[i], {ChildClass(result.arg)}))
        => /\ result.exc = "FeatureException"
           /\ result.value = None
           /\ result.after = result.children
           /\ result.prev # None => cur = result.prev

\* C11 witness: MultiPoint.create(p, "not a point") with p a Point created
\* before has raised FeatureException.
C11_Witness ==
    /\ result.op = "create"
    /\ result.arg = "MultiPoint"
    /\ result.exc = "FeatureException"
    /\ cur # None
    /\ result.children = <<cur, NotAFeature>>

\* C12 as stated: for every variant, GeometryCollection included, to_json()
\* has a "marker" key exactly when a Marker is attached to the feature, and
\* its value is then marker.to_json().
C12_MarkerKey ==
    (result.op = "to_json" /\ result.of = "cur" /\ result.exc = "none")
        => /\ "marker" \in DOMAIN result.value <=> cur.marker # None
           /\ cur.marker # None => result.value.marker = Marker_to_json(cur.marker)

----------------------------------------------------------------------------
(* The option utilities as a state machine: Init draws the arguments, the    *)
(* actions apply soft_update and compact_options to them.                    *)

InnerKeys == {"a", "b", "c"}

\* Values under "options" in obj_a and in obj_b: numbers, a nested mapping,
\* and (in obj_b) an explicit None.
LeafA == {Num(1), Num(2), Dict([x |-> Num(1)])}

LeafB == {Num(3), Num(4), None, Dict([y |-> Num(3)])}

PartialDicts(keys, values) ==
    {Dict(f) : f \in UNION {[S -> values] : S \in SUBSET keys}}

\* Mappings with an optional "options" key (a mapping or a number) and an
\* optional "content" key (a str or a mapping).
TopDicts(leaves) ==
    {Dict(o @@ c) :
        o \in {EmptyDict} \cup {[options |-> v] : v \in PartialDicts(InnerKeys, leaves) \cup {Num(1)}},
        c \in {EmptyDict, [content |-> Str("t")], [content |-> Dict([text |-> Str("t")])]}}

\* Keyword values for compact_options: every falsy value, two truthy ones and
\* a mapping with a None entry and a falsy entry.
CompactValues ==
    {None, Num(0), Str(""), List(<<>>), Dict(EmptyDict), Bool(FALSE), Str("x"), Num(1),
     Dict([k |-> None, m |-> Num(0)])}

\* compact_options(a=None, b=0, c="", d=[], e={}, f=False, g="x", h=1)
ExampleKwargs ==
    Dict([a |-> None, b |-> Num(0), c |-> Str(""), d |-> List(<<>>),
          e |-> Dict(EmptyDict), f |-> Bool(FALSE), g |-> Str("x"), h |-> Num(1)])

\* A value for the field f of a class of the Layer chain, of the field's
\* declared type: a falsy one ("", False, 0, ()) or a truthy one.
FieldValue(f, truthy) ==
    IF f \in {"pane", "attribution", "class_name", "direction", "text", "className",
              "content"}
    THEN Str(IF truthy THEN "s" ELSE "")
    ELSE IF f \in {"opacity", "maxWidth", "minWidth", "maxHeight"}
    THEN Num(IF truthy THEN 1 ELSE 0)
    ELSE IF f \in {"offset", "autoPanPaddingTopLeft", "autoPanPaddingBottomRight",
                   "autoPanPadding"}
    THEN List(IF truthy THEN <<Num(0), Num(1)>> ELSE <<>>)
    ELSE Bool(truthy)

LayerClasses == {"Layer", "InteractiveLayer", "DivOverlay", "Tooltip", "Popup"}

\* cls(**kwargs) for every class of the chain and every choice of at most
\* MaxKwargs of its fields, each given a falsy or a truthy value.
LayerObjects ==
    UNION {UNION {{NewLayer(cls, [f \in S |-> FieldValue(f, c[f])]) : c \in [S -> BOOLEAN]} :
                     S \in {S \in SUBSET FieldsOf(cls) : Cardinality(S) <= MaxKwargs}} :
              cls \in LayerClasses}

InitOptions ==
    /\ features = <<>>
    /\ aliases = <<>>
    /\ nextId = 1
    /\ result = NoCall
    /\ cur = None
    /\ json = None
    /\ \/ \E a \in TopDicts(LeafA), b \in TopDicts(LeafB) :
              opts = [fn |-> "soft_update", obj_a |-> a, obj_b |-> b]
       \/ \E kwargs \in PartialDicts({"p", "q"}, CompactValues) \cup {ExampleKwargs} :
              opts = [fn |-> "compact_options", kwargs |-> kwargs]
       \/ \E self \in LayerObjects :
              opts = [fn |-> "to_json", self |-> self]

SoftUpdate ==
    /\ opts.fn = "soft_update"
    /\ result' = [op |-> "soft_update", arg |-> None]
                     @@ Ok(soft_update(opts.obj_a, opts.obj_b))
    /\ UNCHANGED <<features, aliases, nextId, cur, json, opts>>

CompactOptions ==
    /\ opts.fn = "compact_options"
    /\ result' = [op |-> "compact_options", arg |-> None]
                     @@ Ok(compact_options(opts.kwargs))
    /\ UNCHANGED <<features, aliases, nextId, cur, json, opts>>

\* self.to_json() for an object of the Layer chain
LayerToJson ==
    /\ opts.fn = "to_json"
    /\ result' = [op |-> "to_json", arg |-> None] @@ Ok(layer_to_json(opts.self))
    /\ UNCHANGED <<features, aliases, nextId, cur, json, opts>>

NextOptions ==
    \/ SoftUpdate
    \/ CompactOptions
    \/ LayerToJson

SpecOptions == InitOptions /\ [][NextOptions]_vars

----------------------------------------------------------------------------
(* Claims about the option utilities, checked under SpecOptions *)

\* r is the merge the claim describes of the mappings a and b.
RECURSIVE IsMerge(_, _, _)
IsMerge(r, a, b) ==
    /\ r.cls = "dict"
    /\ DOMAIN r.d = DOMAIN a.d \cup DOMAIN b.d
    /\ \A k \in DOMAIN r.d :
           IF /\ k \in DOMAIN a.d /\ k \in DOMAIN b.d
              /\ a.d[k].cls = "dict" /\ b.d[k].cls = "dict"
           THEN IsMerge(r.d[k], a.d[k], b.d[k])
           ELSE IF k \in DOMAIN b.d THEN r.d[k] = b.d[k]
           ELSE r.d[k] = a.d[k]

ExampleA == Dict([options |-> Dict([a |-> Num(1), b |-> Num(2)])])

ExampleB == Dict([options |-> Dict([b |-> Num(3), c |-> Num(4)])])

ExampleMerged == Dict([options |-> Dict([a |-> Num(1), b |-> Num(3), c |-> Num(4)])])

\* C7: soft_update(A, B) has the union of the keys of A and B; a key whose
\* values are mappings in both gets their soft_update, any other key gets B's
\* value if B has the key and A's value otherwise; the two example mappings
\* merge to {options: {a: 1, b: 3, c: 4}}.
C7_SoftUpdateDeepMerge ==
    result.op = "soft_update" =>
        /\ result.exc = "none"
        /\ IsMerge(result.value, opts.obj_a, opts.obj_b)
        /\ (opts.obj_a = ExampleA /\ opts.obj_b = ExampleB) => result.value = ExampleMerged

\* C7 witness: the example has been merged.
C7_Witness ==
    /\ result.op = "soft_update"
    /\ opts.obj_a = ExampleA
    /\ opts.obj_b = ExampleB
    /\ result.value = ExampleMerged

\* C8 as stated: compact_options omits every entry whose value is None, an
\* empty string, list or mapping, zero or False, and keeps every other entry
\* with its value; the example yields exactly {g: "x", h: 1}.
C8_CompactFalsyOmission ==
    result.op = "compact_options" =>
        /\ DOMAIN result.value.d = {k \in DOMAIN opts.kwargs.d : Truthy(opts.kwargs.d[k])}
        /\ \A k \in DOMAIN result.value.d : result.value.d[k] = opts.kwargs.d[k]
        /\ opts.kwargs = ExampleKwargs => result.value = Dict([g |-> Str("x"), h |-> Num(1)])

\* v with the None entries of a mapping value left out, at every depth.
RECURSIVE WithoutNone(_)
WithoutNone(v) ==
    IF v.cls # "dict" THEN v
    ELSE Dict([k \in DOMAIN v.d \ {k \in DOMAIN v.d : v.d[k].cls = "NoneType"}
                  |-> WithoutNone(v.d[k])])

\* C8 amended: compact_options omits exactly the entries whose value is None
\* and keeps every other entry, the falsy ones (0, "", [], {}, False)
\* included, with its value (a mapping value without its None entries); the
\* example yields {b: 0, c: "", d: [], e: {}, f: False, g: "x", h: 1}.
C8_CompactNoneOmission ==
    result.op = "compact_options" =>
        /\ DOMAIN result.value.d = {k \in DOMAIN opts.kwargs.d : opts.kwargs.d[k].cls # "NoneType"}
        /\ \A k \in DOMAIN result.value.d :
               result.value.d[k] = WithoutNone(opts.kwargs.d[k])
        /\ opts.kwargs = ExampleKwargs =>
               result.value = Dict([b |-> Num(0), c |-> Str(""), d |-> List(<<>>),
                                    e |-> Dict(EmptyDict), f |-> Bool(FALSE),
                                    g |-> Str("x"), h |-> Num(1)])

\* C8 witness: the example has been compacted and its falsy entries are kept.
C8_Witness ==
    /\ result.op = "compact_options"
    /\ opts.kwargs = ExampleKwargs
    /\ DOMAIN result.value.d = {"b", "c", "d", "e", "f", "g", "h"}

\* The option fields of a class of the Layer chain: its fields and its
\* ancestors', but content and text, which are no options.
OptionFields(cls) == FieldsOf(cls) \ {"content", "text"}

\* The option fields of self that are set: not None (offset: a non-empty pair).
OptionsSet(self) ==
    {f \in OptionFields(self.cls) :
        IF f = "offset" THEN Truthy(self.offset) ELSE self[f] # None}

\* The key an option field is serialised under.
OptionKey(f) == IF f = "class_name" THEN "className" ELSE f

\* The value the merge of the levels' blocks has under key k: the field's
\* value, offset as {x, y}; className is Popup's className if that is set
\* (the block of the most derived level wins) and DivOverlay's class_name if not.
OptionValue(self, k) ==
    IF k = "offset" THEN Dict([x |-> self.offset.l[1], y |-> self.offset.l[2]])
    ELSE IF k = "className"
    THEN IF "className" \in OptionsSet(self) THEN self.className ELSE self.class_name
    ELSE self[k]

\* C13: for a Layer, InteractiveLayer, DivOverlay, Tooltip or Popup, to_json()
\* has an "options" key iff some option field of the class or of an ancestor
\* is not None (offset: a non-empty pair); the options mapping then holds, for
\* every such field, the field's value under the field's key (the merge of
\* the levels' compacted blocks), no None value, and values that are False or
\* 0 as they are.
C13_LayerOptions ==
    result.op = "to_json" =>
        LET self == opts.self
            out == result.value.d
        IN  /\ result.exc = "none"
            /\ "options" \in DOMAIN out <=> OptionsSet(self) # {}
            /\ OptionsSet(self) # {} =>
                   /\ DOMAIN out.options.d = {OptionKey(f) : f \in OptionsSet(self)}
                   /\ \A k \in DOMAIN out.options.d :
                          /\ out.options.d[k] # None
                          /\ out.options.d[k] = OptionValue(self, k)

\* C13 witness: Tooltip(permanent=False, opacity=0) serialised, with both
\* options kept.
C13_Witness ==
    /\ result.op = "to_json"
    /\ opts.self.cls = "Tooltip"
    /\ OptionsSet(opts.self) = {"permanent", "opacity"}
    /\ result.value.d.options = Dict([permanent |-> Bool(FALSE), opacity |-> Num(0)])

====
